---- MODULE Spec2Model ----
(***************************************************************************)
(* The NixOS application recommender (app_recommender.py) as a state       *)
(* machine over its SQLite store: the installed_apps and recommendations   *)
(* tables, the write transaction of a generation pass, and the ranked      *)
(* read-back of get_top_recommendations.                                   *)
(*                                                                         *)
(* Conventions.  A table is the sequence of its rows in rowid order (the   *)
(* order SQLite scans it in).  Application names, categories and reasons   *)
(* are strings.  A score is kept in tenths (0.8 is 8): the FLOAT column    *)
(* returns the stored value unchanged.  The timestamp datetime.now() is a  *)
(* logical clock that advances with every usage scan.                      *)
(*                                                                         *)
(* Writers (scan, usage scan, generation pass) do not interleave with one  *)
(* another: SQLite admits one write transaction at a time.  A reader       *)
(* (get_top_recommendations on its own connection) may run between any two *)
(* statements of a generation pass.  What a caller does when a call has    *)
(* returned (main prints the list, the GUI fills its view, the log line is *)
(* written) touches nothing shared, so it is scheduled right after the     *)
(* call: last_call holds the call until then.                              *)
(***************************************************************************)
EXTENDS Integers, Sequences, FiniteSets, TLC

VARIABLES
    installed_apps,   \* table installed_apps, rows in rowid order
    recommendations,  \* table recommendations as committed, rows in rowid order
    clock,            \* logical time of datetime.now()
    gen_pc,           \* "idle", or "txn" inside the write transaction of a pass
    gen_todo,         \* the (category, subcategory, app) iterations still to run
    gen_installed,    \* installed_app_names of the running pass
    tx_recs,          \* table recommendations as the writing connection sees it
    accepted,         \* the list `recommendations` the pass appends to
    pre_recs,         \* history: the committed table when the last pass began
    gen_outcome,      \* history: "none", "running", "committed" or "failed"
    gen_preferred,    \* preferred_categories of the last pass
    gen_probes,       \* history: the hardware probe calls of the last pass
    top_limit,        \* argument of the get_top_recommendations call that returned
    top_result,       \* its return value
    top_ok,           \* TRUE when it returned from the try block
    last_call,        \* the call that has just returned to its caller, with its inputs
    args,             \* the flags main parsed: a subset of scan, usage, recommend, show
    main_pc,          \* where main is: "start", "construct", a step, "done", "crashed"
    ran               \* history: the steps main has called, and whether each succeeded

vars == << installed_apps, recommendations, clock, gen_pc, gen_todo, gen_installed,
           tx_recs, accepted, pre_recs, gen_outcome, gen_preferred, gen_probes,
           top_limit, top_result, top_ok, last_call, args, main_pc, ran >>

store_vars == << installed_apps, recommendations, clock >>
gen_vars == << gen_pc, gen_todo, gen_installed, tx_recs, accepted, pre_recs, gen_outcome,
              gen_preferred, gen_probes >>
top_vars == << top_limit, top_result, top_ok, last_call >>
main_vars == << args, main_pc, ran >>

-----------------------------------------------------------------------------
(* Static tables, in declaration order.                                     *)

CATEGORIES ==
  <<
    [category |-> "development", keywords |-> <<
        "vscode", "vim", "neovim", "emacs", "jetbrains", "intellij", "pycharm", "webstorm",
        "rider", "clion", "rubymine", "idea", "android-studio", "eclipse", "git", "github",
        "gitlab", "subversion", "mercurial", "docker", "podman", "node", "python", "ruby",
        "rust", "go", "java", "kotlin", "scala", "haskell", "clang", "gcc", "llvm" >>],
    [category |-> "graphic_design", keywords |-> <<
        "gimp", "inkscape", "krita", "blender", "darktable", "digikam", "rawtherapee",
        "shotwell", "hugin", "luminance-hdr", "scribus", "photogimp", "figma", "sketch",
        "pinta", "aseprite", "drawio" >>],
    [category |-> "productivity", keywords |-> <<
        "libreoffice", "onlyoffice", "wpsoffice", "calligra", "gnumeric", "abiword",
        "thunderbird", "evolution", "nextcloud", "joplin", "obsidian", "notion",
        "evernote", "simplenote", "standardnotes", "zotero", "mendeley", "calibre",
        "todoist", "tasks", "planner", "gnome-calendar", "korganizer" >>],
    [category |-> "multimedia", keywords |-> <<
        "vlc", "mpv", "kodi", "mplayer", "totem", "rhythmbox", "clementine", "strawberry",
        "lollypop", "audacious", "spotify", "audacity", "ardour", "lmms", "musescore",
        "handbrake", "obs", "kdenlive", "shotcut", "davinci", "openshot", "pitivi", "ffmpeg" >>],
    [category |-> "gaming", keywords |-> <<
        "steam", "lutris", "heroic", "wine", "proton", "gamemode", "mangohud", "goverlay",
        "retroarch", "dolphin-emu", "pcsx2", "rpcs3", "yuzu", "citra", "dosbox", "scummvm",
        "itch", "gog", "minigalaxy", "legendary" >>],
    [category |-> "system_tools", keywords |-> <<
        "gnome-system-monitor", "htop", "btop", "iotop", "powertop", "s-tui", "neofetch",
        "gparted", "baobab", "stacer", "bleachbit", "timeshift", "gtkhash", "gnome-disks",
        "filelight", "ncdu", "glances", "inxi", "hardinfo", "clamav", "gufw", "firewalld" >>],
    [category |-> "networking", keywords |-> <<
        "firefox", "chromium", "brave", "opera", "vivaldi", "qutebrowser", "wget", "curl",
        "transmission", "deluge", "qbittorrent", "filezilla", "remmina", "teamviewer",
        "anydesk", "wireshark", "nmap", "netcat", "openssh", "mosh", "wireguard",
        "openvpn", "mullvad", "nordvpn", "protonvpn" >>],
    [category |-> "security", keywords |-> <<
        "keepassxc", "bitwarden", "pass", "gnupg", "cryptsetup", "veracrypt", "tomb",
        "yubikey-manager", "nitrokey-app", "seahorse", "kleopatra", "lastpass",
        "authenticator", "opensnitch", "clamav", "lynis", "chkrootkit", "firejail",
        "apparmor" >>]
  >>

RECOMMENDATION_RULES ==
  <<
    [category |-> "development", subcategories |-> <<
        [subcategory |-> "python",
         apps |-> << "vscode", "pycharm", "jupyter" >>],
        [subcategory |-> "web",
         apps |-> << "vscode", "webstorm", "firefox-developer-edition", "postman" >>],
        [subcategory |-> "java",
         apps |-> << "intellij-idea", "eclipse", "maven", "gradle" >>],
        [subcategory |-> "rust",
         apps |-> << "vscode", "rust-analyzer", "rustup", "cargo" >>],
        [subcategory |-> "gamedev",
         apps |-> << "godot", "blender", "aseprite", "gimp" >>]
      >>],
    [category |-> "gaming", subcategories |-> <<
        [subcategory |-> "steam",
         apps |-> << "gamemode", "mangohud", "steam-run", "gamescope" >>],
        [subcategory |-> "emulation",
         apps |-> << "retroarch", "lutris", "wine", "proton-ge-custom" >>],
        [subcategory |-> "recording",
         apps |-> << "obs-studio", "replay-sorcery", "nvidia-shadowplay" >>]
      >>],
    [category |-> "multimedia", subcategories |-> <<
        [subcategory |-> "audio_production",
         apps |-> << "ardour", "audacity", "lmms", "carla", "jack2" >>],
        [subcategory |-> "video_editing",
         apps |-> << "kdenlive", "shotcut", "davinci-resolve", "blender" >>],
        [subcategory |-> "streaming",
         apps |-> << "obs-studio", "streamlink", "yt-dlp", "streamlink-twitch-gui" >>]
      >>],
    [category |-> "hardware_specific", subcategories |-> <<
        [subcategory |-> "amd_gpu",
         apps |-> << "corectrl", "radeontop", "rocm-smi" >>],
        [subcategory |-> "nvidia_gpu",
         apps |-> << "nvidia-settings", "nvtop", "gwe" >>],
        [subcategory |-> "intel_gpu",
         apps |-> << "intel-gpu-tools", "libva-utils" >>],
        [subcategory |-> "laptop",
         apps |-> << "powertop", "tlp", "auto-cpufreq", "battery-monitor" >>]
      >>]
  >>

\* score = 0.8, in tenths
DEFAULT_SCORE == 8

\* the limit the GUI refreshes with
GUI_LIMIT == 20

-----------------------------------------------------------------------------
(* Bounds of the model.                                                     *)

\* packages one nix-env listing holds at most
MaxScan == 2
\* usage scans (ticks of the logical clock)
MaxClock == 1
\* journal entries one usage scan reads at most
MaxJournal == 2
\* get_top_recommendations is called with every limit in 0..MaxLimit
MaxLimit == 1
\* length of the generated package names the classifier is run on
MaxNameLen == 3

-----------------------------------------------------------------------------
(* Strings.                                                                 *)

Min(a, b) == IF a <= b THEN a ELSE b

Range(s) == { s[i] : i \in 1..Len(s) }

\* Python: `pat in s`
Contains(s, pat) ==
    \E i \in 1..(Len(s) - Len(pat) + 1) : SubSeq(s, i, i + Len(pat) - 1) = pat

\* Python: s.endswith(suffix)
EndsWith(s, suffix) ==
    /\ Len(s) >= Len(suffix)
    /\ SubSeq(s, Len(s) - Len(suffix) + 1, Len(s)) = suffix

UPPERCASE == "ABCDEFGHIJKLMNOPQRSTUVWXYZ"
LOWERCASE == "abcdefghijklmnopqrstuvwxyz"

LowerChar(c) ==
    IF \E i \in 1..Len(UPPERCASE) : SubSeq(UPPERCASE, i, i) = c
    THEN LET i == CHOOSE j \in 1..Len(UPPERCASE) : SubSeq(UPPERCASE, j, j) = c
         IN  SubSeq(LOWERCASE, i, i)
    ELSE c

\* Python: s.lower()
RECURSIVE Lower(_)
Lower(s) ==
    IF Len(s) = 0 THEN ""
    ELSE LowerChar(SubSeq(s, 1, 1)) \o Lower(SubSeq(s, 2, Len(s)))

\* Python: s.replace(old, "") -- every non-overlapping occurrence, left to right
RECURSIVE Remove(_, _)
Remove(s, old) ==
    IF Len(s) < Len(old) \/ Len(old) = 0 THEN s
    ELSE IF SubSeq(s, 1, Len(old)) = old
         THEN Remove(SubSeq(s, Len(old) + 1, Len(s)), old)
         ELSE SubSeq(s, 1, 1) \o Remove(SubSeq(s, 2, Len(s)), old)

-----------------------------------------------------------------------------
(* Category Classifier.                                                     *)

\* the inner loop: does some keyword of the list occur in the name
RECURSIVE KeywordMatches(_, _, _)
KeywordMatches(keywords, k, pkg_name_lower) ==
    IF k > Len(keywords) THEN FALSE
    ELSE IF Contains(pkg_name_lower, keywords[k]) THEN TRUE
    ELSE KeywordMatches(keywords, k + 1, pkg_name_lower)

\* the outer loop over CATEGORIES.items(), from entry c on
RECURSIVE DetermineFrom(_, _)
DetermineFrom(c, pkg_name_lower) ==
    IF c > Len(CATEGORIES) THEN "other"
    ELSE IF KeywordMatches(CATEGORIES[c].keywords, 1, pkg_name_lower)
         THEN CATEGORIES[c].category
         ELSE DetermineFrom(c + 1, pkg_name_lower)

\* the classifier without pkg_name.lower()
DetermineCaseSensitive(pkg_name, pkg_info) == DetermineFrom(1, pkg_name)

\* a classifier that files what no keyword matches under hardware_specific
DetermineHardwareFallback(pkg_name, pkg_info) ==
    IF DetermineFrom(1, Lower(pkg_name)) = "other"
    THEN "hardware_specific"
    ELSE DetermineFrom(1, Lower(pkg_name))

_determine_category(pkg_name, pkg_info) == DetermineFrom(1, Lower(pkg_name))

-----------------------------------------------------------------------------
(* Inputs: what the collaborators can answer.                               *)

\* package names nix-env can list
Packages == { "vscode", "pycharm", "steam" }

\* the metadata nix-env reports for a package (opaque to the recommender)
PkgInfos == { "1.0", "2.0" }

RECURSIVE SeqsUpTo(_, _)
SeqsUpTo(S, n) ==
    IF n = 0 THEN { << >> }
    ELSE LET shorter == SeqsUpTo(S, n - 1)
         IN  shorter \cup { Append(q, x) : q \in shorter, x \in S }

NoRepeat(q) == \A i, j \in 1..Len(q) : q[i] = q[j] => i = j

\* a listing is json.loads(result.stdout).items(): (name, info) pairs, names distinct
Listings ==
    { [ i \in 1..Len(q) |-> [ name |-> q[i], info |-> "1.0" ] ] :
        q \in { r \in SeqsUpTo(Packages, MaxScan) : NoRepeat(r) } }

\* _SYSTEMD_UNIT of the journal lines that have one
JournalUnits == { "steam.service", "vscode.service", "session-2.scope" }

Journals == SeqsUpTo(JournalUnits, MaxJournal)

\* content of ~/.local/share/recently-used.xbel; "" is a missing or empty file
XbelContents == { "", "exec='steam %u' exec='pycharm %F'" }

-----------------------------------------------------------------------------
(* Usage Aggregator.                                                        *)

InstalledNames(rows) == { rows[i].app_name : i \in 1..Len(rows) }

\* the loop of scan_installed_applications with INSERT OR REPLACE in place of the
\* SELECT that looks for the row first
RECURSIVE ScanRowsReplacing(_, _, _)
ScanRowsReplacing(rows, listing, i) ==
    IF i > Len(listing) THEN rows
    ELSE LET pkg_name == listing[i].name
             Other(r) == r.app_name # pkg_name
         IN  ScanRowsReplacing(
                 Append(SelectSeq(rows, Other),
                        [ app_name    |-> pkg_name,
                          category    |-> _determine_category(pkg_name, listing[i].info),
                          last_used   |-> 0,
                          usage_count |-> 0 ]),
                 listing, i + 1)

\* the loop of scan_installed_applications over the listing, from item i on
RECURSIVE ScanRows(_, _, _)
ScanRows(rows, listing, i) ==
    IF i > Len(listing) THEN rows
    ELSE LET pkg_name == listing[i].name
             category == _determine_category(pkg_name, listing[i].info)
         IN  IF pkg_name \in InstalledNames(rows)
             THEN ScanRows(rows, listing, i + 1)
             ELSE ScanRows(Append(rows, [ app_name    |-> pkg_name,
                                          category    |-> category,
                                          last_used   |-> 0,
                                          usage_count |-> 0 ]),
                           listing, i + 1)

NoCall == [ op |-> "none", listing |-> << >>, journal |-> << >>, xbel |-> "" ]

Returned(op) == [ NoCall EXCEPT !.op = op ]

top_result_vars == << top_limit, top_result, top_ok >>

scan_installed_applications(listing) ==
    /\ gen_pc = "idle"
    /\ installed_apps' = ScanRows(installed_apps, listing, 1)
    /\ last_call' = [ Returned("scan") EXCEPT !.listing = listing ]
    /\ UNCHANGED << recommendations, clock >>
    /\ UNCHANGED gen_vars
    /\ UNCHANGED top_result_vars

\* a scan that commits the inserts it made before it failed
ScanErrorKeepsInserts ==
    /\ gen_pc = "idle"
    /\ \E listing \in Listings :
          installed_apps' = ScanRows(installed_apps, listing, 1)
    /\ last_call' = Returned("scan_error")
    /\ UNCHANGED << recommendations, clock >>
    /\ UNCHANGED gen_vars
    /\ UNCHANGED top_result_vars

\* nix-env fails, its output is not JSON, or a statement fails: nothing is committed
scan_installed_applications_error ==
    /\ gen_pc = "idle"
    /\ last_call' = Returned("scan_error")
    /\ UNCHANGED store_vars
    /\ UNCHANGED gen_vars
    /\ UNCHANGED top_result_vars

\* the journal detector: units ending in .service, with .service removed
JournalApps(journal) ==
    { Remove(journal[i], ".service") :
        i \in { j \in 1..Len(journal) : EndsWith(journal[j], ".service") } }

AllKeywords == UNION { Range(CATEGORIES[c].keywords) : c \in 1..Len(CATEGORIES) }

\* the recently-used detector: every keyword of CATEGORIES that occurs in the file
XbelApps == [ content \in XbelContents |-> { app \in AllKeywords : Contains(content, app) } ]

RECURSIVE SetToSeq(_)
SetToSeq(S) ==
    IF S = {} THEN << >>
    ELSE LET x == CHOOSE y \in S : TRUE IN << x >> \o SetToSeq(S \ { x })

\* both detectors append to one list: an app each of them reports is in it twice
RecentlyUsedWithRepeats(journal, xbel) ==
    LET IsService(unit) == EndsWith(unit, ".service")
        services == SelectSeq(journal, IsService)
    IN  [ i \in 1..Len(services) |-> Remove(services[i], ".service") ]
            \o SetToSeq(XbelApps[xbel])

\* list(apps): both detectors add to one set
_get_recently_used_apps(journal, xbel) == SetToSeq(JournalApps(journal) \cup XbelApps[xbel])

\* UPDATE installed_apps SET last_used = ?, usage_count = usage_count + 1 WHERE app_name = ?
UpdateUsage(rows, now, app_name) ==
    [ i \in 1..Len(rows) |->
        IF rows[i].app_name = app_name
        THEN [ rows[i] EXCEPT !.last_used = now, !.usage_count = @ + 1 ]
        ELSE rows[i] ]

\* the loop of scan_application_usage over recently_used, from item i on
RECURSIVE UsageRows(_, _, _, _)
UsageRows(rows, recently_used, now, i) ==
    IF i > Len(recently_used) THEN rows
    ELSE UsageRows(UpdateUsage(rows, now, recently_used[i]), recently_used, now, i + 1)

scan_application_usage(journal, xbel) ==
    /\ gen_pc = "idle"
    /\ clock < MaxClock
    /\ clock' = clock + 1
    /\ installed_apps' =
           UsageRows(installed_apps, _get_recently_used_apps(journal, xbel), clock + 1, 1)
    /\ last_call' = [ Returned("usage") EXCEPT !.journal = journal, !.xbel = xbel ]
    /\ UNCHANGED recommendations
    /\ UNCHANGED gen_vars
    /\ UNCHANGED top_result_vars

\* the store cannot be opened or a statement fails: nothing is committed
scan_application_usage_error ==
    /\ gen_pc = "idle"
    /\ last_call' = Returned("usage_error")
    /\ UNCHANGED store_vars
    /\ UNCHANGED gen_vars
    /\ UNCHANGED top_result_vars

-----------------------------------------------------------------------------
(* Preference Ranker.                                                       *)

\* categories[category] = categories.get(category, 0) + usage_count; a dict keeps
\* its keys in the order of their first insertion
AddScore(categories, category, usage_count) ==
    IF \E j \in 1..Len(categories) : categories[j].category = category
    THEN [ j \in 1..Len(categories) |->
             IF categories[j].category = category
             THEN [ categories[j] EXCEPT !.score = @ + usage_count ]
             ELSE categories[j] ]
    ELSE Append(categories, [ category |-> category, score |-> usage_count ])

\* the loop over the fetched rows, from row i on; `if category:` skips NULL and ""
RECURSIVE Aggregate(_, _, _)
Aggregate(rows, i, categories) ==
    IF i > Len(rows) THEN categories
    ELSE IF rows[i].category = ""
         THEN Aggregate(rows, i + 1, categories)
         ELSE Aggregate(rows, i + 1,
                        AddScore(categories, rows[i].category, rows[i].usage_count))

\* x goes behind every item whose score is not smaller: equal scores keep their order
InsertDescending(sorted, x) ==
    LET k == Cardinality({ j \in 1..Len(sorted) : sorted[j].score >= x.score })
    IN  SubSeq(sorted, 1, k) \o << x >> \o SubSeq(sorted, k + 1, Len(sorted))

\* sorted(items, key=score, reverse=True): Python's sort is stable, also in reverse
RECURSIVE SortedDescending(_, _, _)
SortedDescending(items, i, sorted) ==
    IF i > Len(items) THEN sorted
    ELSE SortedDescending(items, i + 1, InsertDescending(sorted, items[i]))

\* the categories in the order of their first row, not sorted
PreferredUnsorted(rows) == Aggregate(rows, 1, << >>)

preferred_categories(rows) == SortedDescending(Aggregate(rows, 1, << >>), 1, << >>)

-----------------------------------------------------------------------------
(* Rule Expander.                                                           *)

\* index of the category in RECOMMENDATION_RULES, 0 when it has no rules
RuleIndex(category) ==
    IF \E r \in 1..Len(RECOMMENDATION_RULES) : RECOMMENDATION_RULES[r].category = category
    THEN CHOOSE r \in 1..Len(RECOMMENDATION_RULES) :
             RECOMMENDATION_RULES[r].category = category
    ELSE 0

RECURSIVE Flatten(_)
Flatten(seqs) == IF seqs = << >> THEN << >> ELSE Head(seqs) \o Flatten(Tail(seqs))

\* the iterations of `for subcategory, apps in ...items(): for app in apps`
CategoryIterations(category) ==
    LET r == RuleIndex(category)
    IN  IF r = 0 THEN << >>
        ELSE LET subs == RECOMMENDATION_RULES[r].subcategories
             IN  Flatten([ s \in 1..Len(subs) |->
                     [ a \in 1..Len(subs[s].apps) |->
                         [ category    |-> category,
                           subcategory |-> subs[s].subcategory,
                           app         |-> subs[s].apps[a] ] ] ])

\* the iterations of the three nested loops, in the order the pass runs them
Iterations(preferred) ==
    Flatten([ c \in 1..Len(preferred) |-> CategoryIterations(preferred[c].category) ])

\* what a hardware probe can do: report the hardware, report none, or raise
ProbeAnswers == { "yes", "no", "fails" }

\* a probe whose failure counts as True
ProbeFailOpen(answer) == answer # "no"

\* _has_amd_gpu, _has_nvidia_gpu, _has_intel_gpu, _is_laptop: a failure is False
Probe(answer) == answer = "yes"

HardwareSubcategories == { "amd_gpu", "nvidia_gpu", "intel_gpu", "laptop" }

\* the four `continue` branches under `if category == "hardware_specific"`
HardwareSkips(it, answer) ==
    /\ it.category = "hardware_specific"
    /\ it.subcategory \in HardwareSubcategories
    /\ ~Probe(answer)

\* the iterations that call a probe: the app is not installed and the subcategory
\* is one of the four the pass checks
CallsProbe(it, installed_app_names) ==
    /\ it.app \notin installed_app_names
    /\ it.category = "hardware_specific"
    /\ it.subcategory \in HardwareSubcategories

Reason(category, subcategory) ==
    "Recommended for " \o category \o "/" \o subcategory \o " based on your usage patterns"

Candidate(it) ==
    [ app_name |-> it.app,
      category |-> it.category,
      reason   |-> Reason(it.category, it.subcategory),
      score    |-> DEFAULT_SCORE ]

-----------------------------------------------------------------------------
(* Recommendation Store.                                                    *)

\* INSERT OR IGNORE: a row with the same app_name stays, the new row is dropped
InsertOrIgnore(rows, row) ==
    IF \E i \in 1..Len(rows) : rows[i].app_name = row.app_name
    THEN rows
    ELSE Append(rows, row)

\* INSERT OR REPLACE: a row with the same app_name is deleted, and the new row gets
\* the next rowid, so it is the last row of the table
InsertOrReplace(rows, row) ==
    LET Other(r) == r.app_name # row.app_name
    IN  Append(SelectSeq(rows, Other), row)

\* ORDER BY score DESC: rows of equal score come in rowid order
RECURSIVE OrderByScoreDesc(_, _, _)
OrderByScoreDesc(rows, i, sorted) ==
    IF i > Len(rows) THEN sorted
    ELSE OrderByScoreDesc(rows, i + 1, InsertDescending(sorted, rows[i]))

\* LIMIT ? that returns one row more
LimitOffByOne(rows, limit) ==
    IF limit < 0 THEN rows ELSE SubSeq(rows, 1, Min(limit + 1, Len(rows)))

\* LIMIT ?: a negative limit is no limit
Limit(rows, limit) ==
    IF limit < 0 THEN rows ELSE SubSeq(rows, 1, Min(limit, Len(rows)))

\* DELETE FROM recommendations, inside the transaction it opens
KeepAll(rows) == rows
DeleteAll(rows) == << >>

\* the table a second connection reads: uncommitted changes of a pass are invisible
ReaderViewUncommitted == IF gen_pc = "txn" THEN tx_recs ELSE recommendations
ReaderView == recommendations

\* the table left behind by a connection that is dropped without commit
CommittedOnError == tx_recs
RolledBack == recommendations

-----------------------------------------------------------------------------
(* generate_recommendations, one action per statement that touches the      *)
(* recommendations table.                                                   *)

\* SELECT of installed_apps, the ranking, and DELETE FROM recommendations, which
\* opens the write transaction
generate_begin ==
    /\ gen_pc = "idle"
    /\ gen_pc' = "txn"
    /\ gen_installed' = InstalledNames(installed_apps)
    /\ gen_preferred' = preferred_categories(installed_apps)
    /\ gen_todo' = Iterations(gen_preferred')
    /\ tx_recs' = DeleteAll(recommendations)
    /\ accepted' = << >>
    /\ pre_recs' = recommendations
    /\ gen_outcome' = "running"
    /\ gen_probes' = {}
    /\ UNCHANGED store_vars
    /\ UNCHANGED top_vars

\* one iteration of the innermost loop
generate_step(answer) ==
    /\ gen_pc = "txn"
    /\ gen_todo # << >>
    /\ LET it == Head(gen_todo)
       IN  IF it.app \in gen_installed \/ HardwareSkips(it, answer)
           THEN UNCHANGED << tx_recs, accepted >>
           ELSE /\ tx_recs' = InsertOrReplace(tx_recs, Candidate(it))
                /\ accepted' = Append(accepted, Candidate(it))
    /\ gen_probes' = IF CallsProbe(Head(gen_todo), gen_installed)
                     THEN gen_probes \cup { << Head(gen_todo).subcategory, answer >> }
                     ELSE gen_probes
    /\ gen_todo' = Tail(gen_todo)
    /\ UNCHANGED << gen_pc, gen_installed, pre_recs, gen_outcome, gen_preferred >>
    /\ UNCHANGED store_vars
    /\ UNCHANGED top_vars

\* conn.commit() after the loops
generate_commit ==
    /\ gen_pc = "txn"
    /\ gen_todo = << >>
    /\ recommendations' = tx_recs
    /\ gen_pc' = "idle"
    /\ gen_outcome' = "committed"
    /\ UNCHANGED << installed_apps, clock >>
    /\ UNCHANGED << gen_todo, gen_installed, tx_recs, accepted, pre_recs >>
    /\ UNCHANGED << gen_preferred, gen_probes >>
    /\ UNCHANGED top_vars

\* a statement of the pass raises: the except branch logs and returns, and the
\* connection goes away with its transaction open
generate_error ==
    /\ gen_pc = "txn"
    /\ recommendations' = RolledBack
    /\ gen_pc' = "idle"
    /\ gen_outcome' = IF accepted = << >> THEN "failed_empty" ELSE "failed_partial"
    /\ gen_todo' = << >>
    /\ tx_recs' = << >>
    /\ accepted' = << >>
    /\ gen_preferred' = << >>
    /\ gen_probes' = {}
    /\ UNCHANGED << installed_apps, clock >>
    /\ UNCHANGED << gen_installed, pre_recs >>
    /\ UNCHANGED top_vars

-----------------------------------------------------------------------------
(* get_top_recommendations.                                                 *)

Limits == (0..MaxLimit) \cup { GUI_LIMIT }

TopRows(rows, limit) == Limit(OrderByScoreDesc(rows, 1, << >>), limit)

get_top_recommendations(limit) ==
    /\ top_limit' = limit
    /\ top_result' = TopRows(ReaderView, limit)
    /\ top_ok' = TRUE
    /\ last_call' = Returned("top")
    /\ UNCHANGED store_vars
    /\ UNCHANGED gen_vars

\* the except branch: the store cannot be read, the call returns []
get_top_recommendations_error(limit) ==
    /\ top_limit' = limit
    /\ top_result' = << >>
    /\ top_ok' = FALSE
    /\ last_call' = Returned("top_error")
    /\ UNCHANGED store_vars
    /\ UNCHANGED gen_vars

\* the caller moves on: what the call returned is gone
return_to_caller ==
    /\ last_call # NoCall
    /\ last_call' = NoCall
    /\ top_limit' = 0
    /\ top_result' = << >>
    /\ top_ok' = TRUE
    /\ UNCHANGED store_vars
    /\ UNCHANGED gen_vars

-----------------------------------------------------------------------------
(* The recommender on a fresh database.                                     *)

Init ==
    /\ installed_apps = << >>
    /\ recommendations = << >>
    /\ clock = 0
    /\ gen_pc = "idle"
    /\ gen_todo = << >>
    /\ gen_installed = {}
    /\ tx_recs = << >>
    /\ accepted = << >>
    /\ pre_recs = << >>
    /\ gen_outcome = "none"
    /\ gen_preferred = << >>
    /\ gen_probes = {}
    /\ top_limit = 0
    /\ top_result = << >>
    /\ top_ok = TRUE
    /\ last_call = NoCall
    /\ args = {}
    /\ main_pc = "start"
    /\ ran = << >>

CallerIdle == last_call = NoCall

Scan ==
    /\ CallerIdle
    /\ \E listing \in Listings : scan_installed_applications(listing)
    /\ UNCHANGED main_vars
ScanError ==
    /\ CallerIdle
    /\ scan_installed_applications_error
    /\ UNCHANGED main_vars
Usage ==
    /\ CallerIdle
    /\ \E journal \in Journals, xbel \in XbelContents :
          scan_application_usage(journal, xbel)
    /\ UNCHANGED main_vars
UsageError ==
    /\ CallerIdle
    /\ scan_application_usage_error
    /\ UNCHANGED main_vars
GenerateBegin ==
    /\ CallerIdle
    /\ generate_begin
    /\ UNCHANGED main_vars
GenerateStep ==
    /\ CallerIdle
    /\ \E answer \in ProbeAnswers : generate_step(answer)
    /\ UNCHANGED main_vars
GenerateCommit ==
    /\ CallerIdle
    /\ generate_commit
    /\ UNCHANGED main_vars
GenerateError ==
    /\ CallerIdle
    /\ generate_error
    /\ UNCHANGED main_vars
Top ==
    /\ CallerIdle
    /\ \E limit \in Limits : get_top_recommendations(limit)
    /\ UNCHANGED main_vars
TopError ==
    /\ CallerIdle
    /\ \E limit \in Limits : get_top_recommendations_error(limit)
    /\ UNCHANGED main_vars
Return ==
    /\ return_to_caller
    /\ UNCHANGED main_vars

Next ==
    \/ Scan
    \/ ScanError
    \/ Usage
    \/ UsageError
    \/ GenerateBegin
    \/ GenerateStep
    \/ GenerateCommit
    \/ GenerateError
    \/ Top
    \/ TopError
    \/ Return

Spec == Init /\ [][Next]_vars

-----------------------------------------------------------------------------
(* The classifier on its own: one scan of a one-package listing on a fresh  *)
(* database, for every package name of a bounded set.                       *)

Alphabet == { "g", "o", "v", "l", "c", "G" }

RECURSIVE Words(_)
Words(n) ==
    IF n = 0 THEN { "" }
    ELSE LET shorter == Words(n - 1)
         IN  shorter \cup { w \o c : w \in shorter, c \in Alphabet }

SampleNames ==
    { "clamav", "obs-studio", "obsidian", "Firefox", "xterm", "keepassxc", "goverlay",
      "GIMP", "steam-run", "htop", "libreoffice", "Inkscape" }

NameInputs == Words(MaxNameLen) \cup SampleNames

ClassifyScan ==
    /\ installed_apps = << >>
    /\ CallerIdle
    /\ \E pkg_name \in NameInputs, pkg_info \in PkgInfos :
          scan_installed_applications(<< [ name |-> pkg_name, info |-> pkg_info ] >>)
    /\ UNCHANGED main_vars

ClassifyNext ==
    \/ ClassifyScan
    \/ Return

SpecClassify == Init /\ [][ClassifyNext]_vars

-----------------------------------------------------------------------------
(* Properties.                                                              *)

Names(rows) == InstalledNames(rows)

IsPrefix(p, q) == Len(p) <= Len(q) /\ SubSeq(q, 1, Len(p)) = p

\* the categories some installed app holds
HeldCategories(rows) == { rows[i].category : i \in 1..Len(rows) }

\* the apps RECOMMENDATION_RULES lists under a category
RuleApps(category) ==
    { it.app : it \in Range(CategoryIterations(category)) }

\* C1: no application name stored in the recommendations table is also stored in the
\* installed_apps table, in every state a sequence of steps reaches.
C1_RecommendedNotInstalled ==
    gen_pc = "idle" => Names(recommendations) \cap Names(installed_apps) = {}

\* C2: the pass that commits stores exactly the apps listed under a category some
\* installed app holds, without the installed ones (hardware-specific apps only as
\* the probes allow), one row each, whatever the table held before.
C2_GenerateStoresExactlyTheRuleApps ==
    [][ generate_commit =>
          LET held == HeldCategories(installed_apps)
              plain == UNION { RuleApps(c) : c \in held \ { "hardware_specific" } }
              hardware == UNION { RuleApps(c) : c \in held \cap { "hardware_specific" } }
          IN  /\ (plain \ Names(installed_apps)) \subseteq Names(recommendations')
              /\ Names(recommendations')
                     \subseteq ((plain \cup hardware) \ Names(installed_apps))
              /\ NoRepeat([ i \in 1..Len(recommendations') |->
                              recommendations'[i].app_name ])
      ]_vars

\* only vscode and pycharm are installed, and the pass has committed jupyter but
\* neither vscode nor pycharm, which the pass before had recommended
C2_Witness ==
    /\ gen_outcome = "committed"
    /\ Names(installed_apps) = { "vscode", "pycharm" }
    /\ "pycharm" \in Names(pre_recs)
    /\ "jupyter" \in Names(recommendations)
    /\ Names(recommendations) \cap { "vscode", "pycharm" } = {}

\* C3: a get_top_recommendations call inside the transaction of a pass returns the
\* first `limit` rows of the ranked table as it was committed when the pass began;
\* a call that fails returns the empty list, a prefix of it as well.
C3_ReaderSeesCommittedSet ==
    [][ gen_pc = "txn" /\ last_call'.op \in { "top", "top_error" } =>
          /\ IsPrefix(top_result', OrderByScoreDesc(pre_recs, 1, << >>))
          /\ top_ok' => top_result' = TopRows(pre_recs, top_limit')
      ]_vars

\* a reader holds rows of the old set while the pass has inserted rows of a new one
C3_Witness ==
    /\ gen_pc = "txn"
    /\ last_call.op = "top"
    /\ top_result # << >>
    /\ tx_recs # << >>
    /\ TopRows(tx_recs, top_limit) # top_result
    /\ top_result = TopRows(pre_recs, top_limit)

\* C4: after a pass that failed between its DELETE and its commit, the committed
\* table is the table of before the pass.
C4_FailedPassKeepsOldSet ==
    gen_outcome \in { "failed_empty", "failed_partial" } => recommendations = pre_recs

\* a pass failed after it had inserted rows, and the old rows are still there
C4_Witness ==
    /\ gen_outcome = "failed_partial"
    /\ recommendations # << >>


RowOf(rows, app_name) == rows[CHOOSE i \in 1..Len(rows) : rows[i].app_name = app_name]

ListedNames(listing) == { listing[i].name : i \in 1..Len(listing) }

\* C5: a scan leaves every row it finds as it is, appends one row with
\* category = _determine_category(name), usage count 0 and no last-used time for each
\* listed name that has no row yet, and a second scan of the same listing changes
\* nothing.
C5_ScanInsertsOnlyNewNames ==
    [][ last_call'.op = "scan" =>
          LET listing == last_call'.listing
          IN  /\ IsPrefix(installed_apps, installed_apps')
              /\ Names(installed_apps') = Names(installed_apps) \cup ListedNames(listing)
              /\ Len(installed_apps') = Cardinality(Names(installed_apps'))
              /\ \A i \in (Len(installed_apps) + 1)..Len(installed_apps') :
                   /\ installed_apps'[i].app_name \in ListedNames(listing)
                   /\ \A info \in PkgInfos :
                        installed_apps'[i].category =
                            _determine_category(installed_apps'[i].app_name, info)
                   /\ installed_apps'[i].usage_count = 0
                   /\ installed_apps'[i].last_used = 0
              /\ ScanRows(installed_apps', listing, 1) = installed_apps'
      ]_vars

\* a scan has returned whose listing holds an app that was used before it (so its
\* row was there) and an app that never was
C5_Witness ==
    /\ last_call.op = "scan"
    /\ Len(last_call.listing) = 2
    /\ \E i, j \in 1..Len(installed_apps) :
         /\ installed_apps[i].app_name \in ListedNames(last_call.listing)
         /\ installed_apps[i].usage_count = 1
         /\ installed_apps[j].app_name \in ListedNames(last_call.listing)
         /\ installed_apps[j].last_used = 0

\* the names either detector reports
Signalled(journal, xbel) ==
    { Remove(u, ".service") : u \in { v \in Range(journal) : EndsWith(v, ".service") } }
        \cup XbelApps[xbel]

\* C6: a usage scan raises the usage count of every installed app that a detector
\* reports by exactly 1, however many times it is reported, leaves the other counts
\* as they are, and adds no row.
C6_UsageScanCountsOnce ==
    [][ last_call'.op = "usage" =>
          LET signalled == Signalled(last_call'.journal, last_call'.xbel)
          IN  /\ Len(installed_apps') = Len(installed_apps)
              /\ \A i \in 1..Len(installed_apps) :
                   /\ installed_apps'[i].app_name = installed_apps[i].app_name
                   /\ installed_apps'[i].category = installed_apps[i].category
                   /\ installed_apps'[i].usage_count =
                          IF installed_apps[i].app_name \in signalled
                          THEN installed_apps[i].usage_count + 1
                          ELSE installed_apps[i].usage_count
      ]_vars

\* a usage scan has returned in which the journal and the recently-used file both
\* report steam, and the file reports pycharm, which is not installed: steam was
\* counted once, vscode was not counted, pycharm has no row
C6_Witness ==
    /\ last_call.op = "usage"
    /\ "steam.service" \in Range(last_call.journal)
    /\ { "steam", "pycharm" } \subseteq Signalled(last_call.journal, last_call.xbel)
    /\ Contains(last_call.xbel, "steam")
    /\ { "steam", "vscode" } \subseteq Names(installed_apps)
    /\ RowOf(installed_apps, "steam").usage_count = 1
    /\ RowOf(installed_apps, "vscode").usage_count = 0
    /\ "pycharm" \notin Names(installed_apps)

\* C7: no step removes a row of installed_apps, changes the category of a row or
\* lowers its usage count.
C7_InstalledAppsOnlyGrow ==
    [][ \A i \in 1..Len(installed_apps) :
          \E j \in 1..Len(installed_apps') :
            /\ installed_apps'[j].app_name = installed_apps[i].app_name
            /\ installed_apps'[j].category = installed_apps[i].category
            /\ installed_apps'[j].usage_count >= installed_apps[i].usage_count
      ]_vars

\* a used app and a later one are installed, and a pass has failed since
C7_Witness ==
    /\ Len(installed_apps) >= 2
    /\ installed_apps[1].usage_count >= 1
    /\ gen_outcome = "failed_partial"
    /\ last_call.op = "scan_error"


\* the categories, by their place in CATEGORIES, that have a keyword occurring in
\* the lower-cased name
MatchingCategories(pkg_name) ==
    { c \in 1..Len(CATEGORIES) :
        \E k \in 1..Len(CATEGORIES[c].keywords) :
            Contains(Lower(pkg_name), CATEGORIES[c].keywords[k]) }

Reordered(rows) ==
    { [ i \in 1..Len(rows) |-> rows[p[i]] ] :
        p \in { q \in [ 1..Len(rows) -> 1..Len(rows) ] :
                  \A i, j \in 1..Len(rows) : q[i] = q[j] => i = j } }

\* C9: the categories are ranked by aggregate usage count, highest first, and the
\* ranking is the same for every order in which the same apps were inserted.
C9_RankingIgnoresInsertionOrder ==
    LET ranking == preferred_categories(installed_apps)
    IN  /\ \A i, j \in 1..Len(ranking) : i < j => ranking[i].score >= ranking[j].score
        /\ \A rows \in Reordered(installed_apps) : preferred_categories(rows) = ranking

\* index of the last entry of the accepted list with this app name
LastAccepted(app_name) ==
    CHOOSE i \in 1..Len(accepted) :
        /\ accepted[i].app_name = app_name
        /\ \A j \in (i + 1)..Len(accepted) : accepted[j].app_name # app_name

\* C10: get_top_recommendations(n) after a pass that committed returns min(n, k)
\* rows, k being the number of distinct names the pass accepted: rows of distinct
\* names, each with the score the pass stored for the name, in non-increasing score
\* order, rows of equal score in the order the pass inserted them.
C10_TopReturnsRankedPrefix ==
    last_call.op = "top" /\ gen_pc = "idle" /\ gen_outcome = "committed" =>
        LET k == Cardinality({ accepted[i].app_name : i \in 1..Len(accepted) })
            n == Len(top_result)
        IN  /\ n = Min(top_limit, k)
            /\ \A i \in 1..n :
                 /\ top_result[i].app_name \in Names(accepted)
                 /\ top_result[i].score = accepted[LastAccepted(top_result[i].app_name)].score
            /\ \A i, j \in 1..n :
                 i < j =>
                   /\ top_result[i].app_name # top_result[j].app_name
                   /\ top_result[i].score >= top_result[j].score
                   /\ top_result[i].score = top_result[j].score =>
                        LastAccepted(top_result[i].app_name)
                            < LastAccepted(top_result[j].app_name)

\* a pass accepted vscode three times; the GUI's read with limit 20 returns all 17
\* rows, vscode behind postman, where its last insert put it
C10_Witness ==
    /\ last_call.op = "top"
    /\ gen_pc = "idle"
    /\ gen_outcome = "committed"
    /\ top_limit = GUI_LIMIT
    /\ Len(accepted) > Len(top_result)
    /\ Len(top_result) < top_limit
    /\ \E i, j \in 1..Len(top_result) :
         /\ i < j
         /\ top_result[i].app_name = "postman"
         /\ top_result[j].app_name = "vscode"


\* aggregate usage count the last pass computed for the category
PassScore(category) ==
    LET k == CHOOSE j \in 1..Len(gen_preferred) : gen_preferred[j].category = category
    IN  gen_preferred[k].score

\* the subcategories of the category whose rule lists the app
RuleSubcategories(category, app) ==
    { it.subcategory : it \in { x \in Range(CategoryIterations(category)) : x.app = app } }

\* C11: in the ranked read-back after a pass that committed, every row stored with
\* a category of strictly higher aggregate usage comes before every row stored with
\* a category of lower aggregate usage, and each row's reason is "Recommended for
\* {category}/{subcategory} based on your usage patterns" of a subcategory of its
\* category whose rule lists the app.
C11_HigherUsageCategoryFirst ==
    last_call.op = "top" /\ gen_pc = "idle" /\ gen_outcome = "committed" =>
        /\ \A i, j \in 1..Len(top_result) :
             PassScore(top_result[i].category) > PassScore(top_result[j].category)
                 => i < j
        /\ \A i \in 1..Len(top_result) :
             \E subcategory \in RuleSubcategories(top_result[i].category,
                                                  top_result[i].app_name) :
                 top_result[i].reason = Reason(top_result[i].category, subcategory)

\* steam was inserted before vscode, vscode has been used and steam has not; the
\* read returns development rows, then gaming rows
C11_Witness ==
    /\ last_call.op = "top"
    /\ gen_pc = "idle"
    /\ gen_outcome = "committed"
    /\ Len(installed_apps) = 2
    /\ installed_apps[1].app_name = "steam"
    /\ gen_preferred = << [ category |-> "development", score |-> 1 ],
                          [ category |-> "gaming", score |-> 0 ] >>
    /\ \E i, j \in 1..Len(top_result) :
         /\ i < j
         /\ top_result[i].category = "development"
         /\ top_result[i].reason
              = "Recommended for development/python based on your usage patterns"
         /\ top_result[j].category = "gaming"


-----------------------------------------------------------------------------
(* The generation pass over stores that hold rows of the category            *)
(* hardware_specific. The classifier never assigns it; the pass ranks         *)
(* whatever categories the table installed_apps holds.                       *)

HardwareApps(subcategory) ==
    LET subs == RECOMMENDATION_RULES[RuleIndex("hardware_specific")].subcategories
        k == CHOOSE j \in 1..Len(subs) : subs[j].subcategory = subcategory
    IN  Range(subs[k].apps)

AllHardwareApps == UNION { HardwareApps(subcategory) : subcategory \in HardwareSubcategories }

\* the hardware apps a store leaves out, so that the pass asks a probe about them
HardwareMissing ==
    { { "corectrl", "radeontop", "rocm-smi", "battery-monitor" },
      { "radeontop", "rocm-smi", "gwe" } }

StoredRow(app_name, category, usage_count) ==
    [ app_name |-> app_name, category |-> category,
      last_used |-> 0, usage_count |-> usage_count ]

\* a table installed_apps: steam first, last or absent, around the hardware rows
HardwareStores ==
    LET HardwareRows(missing) ==
            SetToSeq({ StoredRow(app, "hardware_specific", 0) :
                         app \in AllHardwareApps \ missing })
        SteamRows == { StoredRow("steam", "gaming", u) : u \in 0..MaxClock }
    IN  UNION { { HardwareRows(missing) } \cup
                { << steam >> \o HardwareRows(missing) : steam \in SteamRows } \cup
                { HardwareRows(missing) \o << steam >> : steam \in SteamRows }
                : missing \in HardwareMissing }

InitHardware ==
    /\ installed_apps \in HardwareStores
    /\ recommendations = << >>
    /\ clock = 0
    /\ gen_pc = "idle"
    /\ gen_todo = << >>
    /\ gen_installed = {}
    /\ tx_recs = << >>
    /\ accepted = << >>
    /\ pre_recs = << >>
    /\ gen_outcome = "none"
    /\ gen_preferred = << >>
    /\ gen_probes = {}
    /\ top_limit = 0
    /\ top_result = << >>
    /\ top_ok = TRUE
    /\ last_call = NoCall
    /\ args = {}
    /\ main_pc = "start"
    /\ ran = << >>

\* a pass begins on a fresh table recommendations, or after one pass that did
HardwareBegin == pre_recs = << >> /\ GenerateBegin

NextHardware ==
    \/ HardwareBegin
    \/ GenerateStep
    \/ GenerateCommit
    \/ GenerateError

SpecHardware == InitHardware /\ [][NextHardware]_vars

\* the answers the probe of the subcategory gave in the last pass
ProbeAnswered(subcategory) == { c[2] : c \in { d \in gen_probes : d[1] = subcategory } }

\* C12: when has_amd_gpu answered False or failed every time a pass asked it, no
\* app of the rule hardware_specific/amd_gpu is in the table the pass committed,
\* nor in the list it returns, and a probe that fails does not fail the pass.
C12_NoAmdAppsWithoutAmdGpu ==
    gen_pc = "idle" /\ gen_outcome = "committed" /\ "yes" \notin ProbeAnswered("amd_gpu") =>
        /\ Names(recommendations) \cap HardwareApps("amd_gpu") = {}
        /\ Names(accepted) \cap HardwareApps("amd_gpu") = {}

\* hardware_specific is ranked first, the pass asked has_amd_gpu and got a failure
\* and a False, it committed, and another probe's apps are in the table
C12_Witness ==
    /\ gen_pc = "idle"
    /\ gen_outcome = "committed"
    /\ gen_preferred # << >>
    /\ gen_preferred[1].category = "hardware_specific"
    /\ ProbeAnswered("amd_gpu") = { "no", "fails" }
    /\ "battery-monitor" \in Names(recommendations)
    /\ "corectrl" \in Names(pre_recs)


-----------------------------------------------------------------------------
(* main: one command-line invocation, on a fresh store or on a store an      *)
(* earlier invocation has left.                                              *)

Flags == { "scan", "usage", "recommend", "show" }

\* the order of the four `if` statements of main
MainSteps == << "scan", "usage", "recommend", "show" >>

\* a show that runs only when --show is given
ShowOnlyWhenAsked(flags) == "show" \in flags

\* args.show or (not args.scan and not args.usage and not args.recommend)
ShowRuns(flags) ==
    "show" \in flags \/ ("scan" \notin flags /\ "usage" \notin flags /\ "recommend" \notin flags)

\* the condition of the `if` statement of the step
Requested(step, flags) == IF step = "show" THEN ShowRuns(flags) ELSE step \in flags

\* where main goes after the `if` statement of the step
After(step) ==
    CASE step = "scan"      -> "usage"
      [] step = "usage"     -> "recommend"
      [] step = "recommend" -> "show"
      [] step = "show"      -> "done"

\* the table a pass that commits writes for these installed rows, no installed
\* row being of the category hardware_specific
RECURSIVE PassRows(_, _, _)
PassRows(todo, installed_app_names, rows) ==
    IF todo = << >> THEN rows
    ELSE PassRows(Tail(todo), installed_app_names,
                  IF Head(todo).app \in installed_app_names
                  THEN rows
                  ELSE InsertOrReplace(rows, Candidate(Head(todo))))

\* the stores main starts on: a fresh one, and one where pycharm was scanned and
\* a pass has committed
MainStores ==
    LET scanned == ScanRows(<< >>, << [ name |-> "pycharm", info |-> "1.0" ] >>, 1)
    IN  { [ installed_apps |-> << >>, recommendations |-> << >> ],
          [ installed_apps  |-> scanned,
            recommendations |-> PassRows(Iterations(preferred_categories(scanned)),
                                         InstalledNames(scanned), << >>) ] }

InitMain ==
    /\ \E store \in MainStores :
          /\ installed_apps = store.installed_apps
          /\ recommendations = store.recommendations
    /\ clock = 0
    /\ gen_pc = "idle"
    /\ gen_todo = << >>
    /\ gen_installed = {}
    /\ tx_recs = << >>
    /\ accepted = << >>
    /\ pre_recs = << >>
    /\ gen_outcome = "none"
    /\ gen_preferred = << >>
    /\ gen_probes = {}
    /\ top_limit = 0
    /\ top_result = << >>
    /\ top_ok = TRUE
    /\ last_call = NoCall
    /\ args = {}
    /\ main_pc = "start"
    /\ ran = << >>

\* the call of the step has returned: main goes on to the next `if`
Called(step, ok) ==
    /\ main_pc = step
    /\ Requested(step, args)
    /\ ran' = Append(ran, [ step |-> step, ok |-> ok ])
    /\ main_pc' = After(step)
    /\ UNCHANGED args

\* parser.parse_args()
main_parse_args(flags) ==
    /\ main_pc = "start"
    /\ args' = flags
    /\ main_pc' = "construct"
    /\ UNCHANGED ran
    /\ UNCHANGED << store_vars, gen_vars, top_vars >>

\* AppRecommender(): ensure_db_exists creates the tables that are missing
main_construct ==
    /\ main_pc = "construct"
    /\ main_pc' = "scan"
    /\ UNCHANGED << args, ran >>
    /\ UNCHANGED << store_vars, gen_vars, top_vars >>

\* ensure_db_exists raises: main has no handler, the invocation ends
main_construct_error ==
    /\ main_pc = "construct"
    /\ main_pc' = "crashed"
    /\ UNCHANGED << args, ran >>
    /\ UNCHANGED << store_vars, gen_vars, top_vars >>

\* the condition of the `if` statement is false
main_skip ==
    /\ main_pc \in Range(MainSteps)
    /\ ~Requested(main_pc, args)
    /\ main_pc' = After(main_pc)
    /\ UNCHANGED << args, ran >>
    /\ UNCHANGED << store_vars, gen_vars, top_vars >>

main_scan ==
    /\ CallerIdle
    /\ \E listing \in Listings : scan_installed_applications(listing)
    /\ Called("scan", TRUE)

main_scan_error ==
    /\ CallerIdle
    /\ scan_installed_applications_error
    /\ Called("scan", FALSE)

main_usage ==
    /\ CallerIdle
    /\ \E journal \in Journals, xbel \in XbelContents :
          scan_application_usage(journal, xbel)
    /\ Called("usage", TRUE)

main_usage_error ==
    /\ CallerIdle
    /\ scan_application_usage_error
    /\ Called("usage", FALSE)

main_recommend_begin ==
    /\ CallerIdle
    /\ main_pc = "recommend"
    /\ Requested("recommend", args)
    /\ generate_begin
    /\ UNCHANGED main_vars

main_recommend_step ==
    /\ main_pc = "recommend"
    /\ \E answer \in ProbeAnswers : generate_step(answer)
    /\ UNCHANGED main_vars

main_recommend_commit ==
    /\ generate_commit
    /\ Called("recommend", TRUE)

main_recommend_error ==
    /\ generate_error
    /\ Called("recommend", FALSE)

main_show ==
    /\ CallerIdle
    /\ \E limit \in Limits : get_top_recommendations(limit)
    /\ Called("show", TRUE)

main_show_error ==
    /\ CallerIdle
    /\ \E limit \in Limits : get_top_recommendations_error(limit)
    /\ Called("show", FALSE)

MainParse == \E flags \in SUBSET Flags : main_parse_args(flags)

MainReturn == return_to_caller /\ UNCHANGED main_vars

NextMain ==
    \/ MainParse
    \/ main_construct
    \/ main_construct_error
    \/ main_skip
    \/ main_scan
    \/ main_scan_error
    \/ main_usage
    \/ main_usage_error
    \/ main_recommend_begin
    \/ main_recommend_step
    \/ main_recommend_commit
    \/ main_recommend_error
    \/ main_show
    \/ main_show_error
    \/ MainReturn

SpecMain == InitMain /\ [][NextMain]_vars

StepsOf(calls) == [ i \in 1..Len(calls) |-> calls[i].step ]

\* the call main has just made has returned from its except branch
JustFailed(step) ==
    /\ ran' # ran
    /\ ran'[Len(ran')].step = step
    /\ ~ran'[Len(ran')].ok

ClaimedSteps(flags) ==
    LET Asked(step) ==
            \/ step \in flags
            \/ step = "show" /\ flags \cap { "scan", "usage", "recommend" } = {}
    IN  SelectSeq(<< "scan", "usage", "recommend", "show" >>, Asked)

\* C14: the steps of one invocation run in the order scan, usage-scan, generate,
\* show, for every set of flags; show runs exactly when --show is given or none of
\* --scan, --usage, --recommend is; and show changes neither table: it returns the
\* rows that were last committed.
C14_StepsRunInFixedOrder ==
    /\ [](main_pc \notin { "start", "construct", "crashed" } =>
            /\ IsPrefix(StepsOf(ran), ClaimedSteps(args))
            /\ main_pc = "done" => StepsOf(ran) = ClaimedSteps(args))
    /\ [][ ran' # ran /\ ran'[Len(ran')].step = "show" =>
             /\ installed_apps' = installed_apps
             /\ recommendations' = recommendations
             /\ ran'[Len(ran')].ok => top_result' = TopRows(recommendations, top_limit') ]_vars

\* no flag is given on the store an earlier pass wrote: show alone runs and returns
\* the rows of that pass
C14_Witness ==
    /\ main_pc = "done"
    /\ args = {}
    /\ StepsOf(ran) = << "show" >>
    /\ ran[1].ok
    /\ top_result # << >>


\* the entries of the accepted list with this app name
AcceptedAs(app_name) == { i \in 1..Len(accepted) : accepted[i].app_name = app_name }

-----------------------------------------------------------------------------
(* The classifier followed by generation passes: one scan of a one-package   *)
(* listing on a fresh database, then passes over what the scan has stored.   *)

NextClassifyPass ==
    \/ ClassifyScan
    \/ GenerateBegin
    \/ GenerateStep
    \/ GenerateCommit
    \/ Return

SpecClassifyPass == Init /\ [][NextClassifyPass]_vars

CategoryKeys == { CATEGORIES[c].category : c \in 1..Len(CATEGORIES) }

====
